---------------------------- MODULE Spec2Model ----------------------------
(***************************************************************************)
(* Model of the camera-app stream supervisor (src/src/watchdog.py) and of  *)
(* the notification policy in the websocket callback (src/src/main.py).    *)
(*                                                                         *)
(* Time is a global clock `now` in whole seconds since local midnight of   *)
(* the day the process started.  Python's None is the empty tuple and a    *)
(* set value v is the one-element tuple <<v>>.  Text is a tuple of        *)
(* one-character strings, so that prefix tests, strip, split and case      *)
(* conversion are computed as the code computes them.                      *)
(***************************************************************************)
EXTENDS Integers, Sequences, FiniteSets, TLC

(***************************************************************************)
(* Bounds of the model.                                                    *)
(***************************************************************************)
\* clock reading when main() subscribes (04:28:00, two minutes before NIGHT_END)
StartClock == 16080
\* number of clock advances in a run of the policy specification
MaxTicks == 2
\* number of stream messages whose image is analysed in a run
MaxEvents == 2
\* seconds of watchdog operation explored after process start
WdHorizon == 45
\* number of periodic checks the watchdog makes in a run
MaxChecks == 4

\* clock advances of the policy specification: inside and outside the 10 s,
\* 60 s and 10 min windows (5 and 5+5, 55 and 5+55, 595 and 5+595)
PolicyDeltas == {5, 55, 595}
\* clock advances of the watchdog specification
WdDeltas == {5}
DispatchDeltas == {5}
\* seconds, and the time from 04:28:00 to 20:00:00
ProgramDeltas == {5, 55920}

(***************************************************************************)
(* Text.                                                                   *)
(***************************************************************************)
None == <<>>
Some(v) == <<v>>

NL == "\n"
SP == " "
LowerChars == <<"a", "b", "c", "d", "e", "f", "g", "h", "i", "j", "k", "l", "m",
                "n", "o", "p", "q", "r", "s", "t", "u", "v", "w", "x", "y", "z">>
UpperChars == <<"A", "B", "C", "D", "E", "F", "G", "H", "I", "J", "K", "L", "M",
                "N", "O", "P", "Q", "R", "S", "T", "U", "V", "W", "X", "Y", "Z">>

\* str.upper() and str.lower() on one character
UpperChar(c) ==
    IF \E i \in 1..26 : LowerChars[i] = c
    THEN UpperChars[CHOOSE i \in 1..26 : LowerChars[i] = c]
    ELSE c
LowerChar(c) ==
    IF \E i \in 1..26 : UpperChars[i] = c
    THEN LowerChars[CHOOSE i \in 1..26 : UpperChars[i] = c]
    ELSE c
\* str.upper(), str.lower()
Upper(s) == [i \in 1..Len(s) |-> UpperChar(s[i])]
Lower(s) == [i \in 1..Len(s) |-> LowerChar(s[i])]
\* str.capitalize(): first character upper-cased, the rest lower-cased
Capitalize(s) == [i \in 1..Len(s) |-> IF i = 1 THEN UpperChar(s[i]) ELSE LowerChar(s[i])]
\* str.startswith(prefix)
StartsWith(s, p) == Len(s) >= Len(p) /\ SubSeq(s, 1, Len(p)) = p
IsSpace(c) == c \in {SP, NL}
\* str.strip(): whitespace removed at both ends
Strip(s) ==
    LET keep == {i \in 1..Len(s) : ~IsSpace(s[i])}
        Min(S) == CHOOSE x \in S : \A y \in S : x <= y
        Max(S) == CHOOSE x \in S : \A y \in S : x >= y
    IN  IF keep = {} THEN <<>> ELSE SubSeq(s, Min(keep), Max(keep))
\* str.split('\n'): the lines of s (always at least one)
RECURSIVE Split(_)
Split(s) ==
    IF \A i \in 1..Len(s) : s[i] # NL
    THEN <<s>>
    ELSE LET k == CHOOSE i \in 1..Len(s) : s[i] = NL /\ \A j \in 1..(i - 1) : s[j] # NL
         IN  <<SubSeq(s, 1, k - 1)>> \o Split(SubSeq(s, k + 1, Len(s)))

ALARM == <<"A", "L", "A", "R", "M">>
OBSERVATION == <<"O", "B", "S", "E", "R", "V", "A", "T", "I", "O", "N">>
NOTHING_TO_REPORT == <<"N", "O", "T", "H", "I", "N", "G", " ", "T", "O", " ",
                       "R", "E", "P", "O", "R", "T">>
ALARM_PERSON == <<"A", "L", "A", "R", "M", " ", "P", "E", "R", "S", "O", "N">>
OBSERVATION_PERSON == <<"O", "B", "S", "E", "R", "V", "A", "T", "I", "O", "N", " ",
                        "P", "E", "R", "S", "O", "N">>

\* analysis results the vision model is taken to return
Analyses == {
    <<"A", "L", "A", "R", "M", " ", "P", "E", "R", "S", "O", "N", "\n", "a">>,
    <<"A", "L", "A", "R", "M", " ", "C", "A", "R", "\n", "a">>,
    <<"O", "B", "S", "E", "R", "V", "A", "T", "I", "O", "N", " ", "P", "E", "R", "S", "O", "N", "\n", "b">>,
    <<"O", "B", "S", "E", "R", "V", "A", "T", "I", "O", "N", " ", "C", "A", "T", "\n", "b">>,
    <<"O", "B", "S", "E", "R", "V", "A", "T", "I", "O", "N", " ", "P", "E", "R", "S", "O", "N">>,
    <<"N", "O", "T", "H", "I", "N", "G", " ", "T", "O", " ", "R", "E", "P", "O", "R", "T", "\n", "a">>,
    <<"a", "l", "a", "r", "m", " ", "p", "e", "r", "s", "o", "n", "\n", "b">> }

Cameras == {"Front", "Back"}

(***************************************************************************)
(* Program constants.                                                      *)
(***************************************************************************)
\* watchdog.py:48  self.max_reconnect_failures = 3
max_reconnect_failures == 3
\* main.py:32  PERSON_DEDUPE_MINUTES = 10
PERSON_DEDUPE_MINUTES == 10
\* main.py:304  timedelta(minutes=1), in seconds
ALARM_BACKOFF_SECONDS == 60
\* main.py:321  timedelta(seconds=10)
OBSERVATION_BACKOFF_SECONDS == 10
\* main.py:53-54  NIGHT_START = (0, 0), NIGHT_END = (4, 30)
NIGHT_START == <<0, 0>>
NIGHT_END == <<4, 30>>
\* watchdog.py:13-14: the environment's WEBSOCKET_STALE_SECONDS and
\* WEBSOCKET_INITIAL_TIMEOUT (any integers; these are the values explored)
\* watchdog.py:13-14: the defaults
DefaultStaleSeconds == 300
DefaultInitialTimeout == 60
StaleChoices == {5, 10}
InitialTimeoutChoices == {5}

(***************************************************************************)
(* State.                                                                  *)
(***************************************************************************)
VARIABLES
    now,                        \* the wall clock, seconds
    ticks,                      \* clock advances made so far
    WEBSOCKET_STALE_SECONDS,    \* watchdog.py:13
    WEBSOCKET_INITIAL_TIMEOUT,  \* watchdog.py:14
    notify,                     \* args.notify
    camera_filter,              \* main.py:19, None or a camera name
    test_mode,                  \* main.py:20
    scheduled_exit,             \* args.scheduled_exit
    startup_sent,               \* the startup notification of main.py:446 was sent
    status_next,                \* next_run of run_twice_daily_status, None before it starts
    status_sent,                \* "System online" notifications sent so far
    status_result,              \* how the latest wake-up of that loop ended: "none" before
                                \* the first, "off" (nothing sent), "sent" or "failed"
    exit_pc,                    \* run_scheduled_exit: "off", "until8pm" (line 231) or "grace" (line 238)
    exit_wake,                  \* when that sleep ends
    night_input,                \* a call of the night test on its own: None, or the hour and
                                \* minute of `now` and the NIGHT_START, NIGHT_END it runs with
    night_result,               \* what that call returned, None before it
    started,                    \* main() has subscribed and started the watchdog
    exit_code,                  \* None while the process runs, else Some(status)
    last_ws_message_at,         \* watchdog.py:16
    connection_start_time,      \* watchdog.py:17
    reconnect_failure_count,    \* watchdog.py:47
    unsubscribe_fn,             \* watchdog.py:43: the subscription handle the watchdog holds
    active,                     \* subscription handles that still deliver messages
    subscriptions,              \* number of subscriptions created so far
    wd_pc,                      \* "sleep" (line 54) or "update" (line 86) in WebsocketWatchdog.run
    wd_wake,                    \* when the sleep of line 54 ends
    wd_now,                     \* `now` of line 55, kept across the await of line 86
    checks,                     \* periodic checks made so far
    heard,                      \* a stream message arrived since the latest (re)subscription
    unsubscribe_calls,          \* the handles called at line 81 so far, in order
    wd_calls,                   \* how the unsubscribe call (line 81) and protect.update()
                                \* (line 86) of the latest stale check ended
    last_notification_time,     \* main.py:25
    last_alarm_time,            \* main.py:26
    last_person_notification_by_camera,  \* main.py:29
    inflight,                   \* callbacks suspended in process_camera_image, per camera
    handled,                    \* callbacks that went on to image analysis so far
    person_sent,                \* per camera, message and time of the latest
                                \* send_notification call made for a person event
    decision,                   \* inputs and outcome of the latest resumed callback
    running                     \* the callback inside lines 286-353, if one is: its camera,
                                \* analysis, current_time and the history as it found it

heartbeat == <<last_ws_message_at, connection_start_time>>
config == <<WEBSOCKET_STALE_SECONDS, WEBSOCKET_INITIAL_TIMEOUT, notify, camera_filter, test_mode,
            scheduled_exit>>
scheduler == <<startup_sent, status_next, status_sent, status_result, exit_pc, exit_wake>>
night == <<night_input, night_result>>
supervisor == <<reconnect_failure_count, unsubscribe_fn, active, subscriptions,
                wd_pc, wd_wake, wd_now, checks, heard, wd_calls, unsubscribe_calls>>
history == <<last_notification_time, last_alarm_time, last_person_notification_by_camera>>
handlers == <<inflight, handled, person_sent, decision, running>>
vars == <<now, ticks, config, night, scheduler, started, exit_code, heartbeat, supervisor, history, handlers>>

\* PolicyHistory as one value
History == [last_alarm_time |-> last_alarm_time,
            last_notification_time |-> last_notification_time,
            persons |-> last_person_notification_by_camera]

NoCalls == [unsubscribe |-> "none", update |-> "none"]
NotCalled == [called |-> FALSE, raised |-> FALSE, content |-> <<>>]
NoDecision == [n |-> 0, camera |-> "", analysis |-> None, at |-> 0, outcome |-> "none",
               priority |-> None, cmp |-> NotCalled, delivered |-> FALSE]

\* module load: watchdog.py:16-17, WebsocketWatchdog.__init__ (lines 47-48),
\* main.py:16-29
ModuleLoad ==
    /\ now = StartClock
    /\ ticks = 0
    /\ started = FALSE
    /\ exit_code = None
    /\ last_ws_message_at = None
    /\ connection_start_time = None
    /\ reconnect_failure_count = 0
    /\ unsubscribe_fn = 0
    /\ active = {}
    /\ subscriptions = 0
    /\ wd_pc = "unstarted"
    /\ wd_wake = 0
    /\ wd_now = 0
    /\ checks = 0
    /\ heard = FALSE
    /\ wd_calls = NoCalls
    /\ unsubscribe_calls = <<>>
    /\ startup_sent = FALSE
    /\ status_next = None
    /\ status_sent = 0
    /\ status_result = "none"
    /\ exit_pc = "off"
    /\ exit_wake = 0
    /\ last_notification_time = None
    /\ last_alarm_time = None
    /\ last_person_notification_by_camera = [c \in Cameras |-> None]
    /\ inflight = [c \in Cameras |-> 0]
    /\ handled = 0
    /\ person_sent = [c \in Cameras |-> None]
    /\ decision = NoDecision
    /\ running = None

\* the program calls the night test only inside the callback
Boot ==
    /\ ModuleLoad
    /\ night_input = None
    /\ night_result = None

\* the supervisor under every explored threshold, notifications off
InitWatchdog ==
    /\ Boot
    /\ WEBSOCKET_STALE_SECONDS \in StaleChoices
    /\ WEBSOCKET_INITIAL_TIMEOUT \in InitialTimeoutChoices
    /\ notify = FALSE
    /\ camera_filter = None
    /\ test_mode = FALSE
    /\ scheduled_exit = FALSE

\* the policy engine under the default thresholds, with and without --notify
InitPolicy ==
    /\ Boot
    /\ WEBSOCKET_STALE_SECONDS = DefaultStaleSeconds
    /\ WEBSOCKET_INITIAL_TIMEOUT = DefaultInitialTimeout
    /\ notify \in BOOLEAN
    /\ camera_filter = None
    /\ test_mode = FALSE
    /\ scheduled_exit = FALSE

(***************************************************************************)
(* Heartbeat store, watchdog.py:19-29.                                     *)
(***************************************************************************)
\* update_ws_heartbeat without the test of line 23
update_ws_heartbeatRestarting(hb, t) == <<Some(t), Some(t)>>

\* update_ws_heartbeat(now): the pair (last message, connection start) afterwards
update_ws_heartbeat(hb, t) ==
    <<Some(t), IF hb[2] = None THEN Some(t) ELSE hb[2]>>
\* reset_connection_start_time(now)
reset_connection_start_time(hb, t) == <<hb[1], Some(t)>>

\* watchdog.py:51
check_interval ==
    LET third == IF WEBSOCKET_STALE_SECONDS > 0 THEN WEBSOCKET_STALE_SECONDS \div 3 ELSE 30
        lo == IF 60 < third THEN 60 ELSE third
    IN  IF 10 > lo THEN 10 ELSE lo

(***************************************************************************)
(* The two timer loops of main.py:173-243.                                 *)
(***************************************************************************)
\* lines 179-188: the next 08:00 or 20:00 after t, t in seconds since the
\* midnight that started day 0
next_runInclusive(t) ==
    LET midnight == (t \div (24 * 3600)) * (24 * 3600)
        morning == midnight + 8 * 3600
        evening == midnight + 20 * 3600
    IN  IF t <= morning THEN morning
        ELSE IF t <= evening THEN evening
        ELSE morning + 24 * 3600

next_run(t) ==
    LET midnight == (t \div (24 * 3600)) * (24 * 3600)
        morning == midnight + 8 * 3600
        evening == midnight + 20 * 3600
    IN  IF t < morning THEN morning
        ELSE IF t < evening THEN evening
        ELSE morning + 24 * 3600

\* lines 219-225: the next 20:00 after t
exit_time(t) ==
    LET evening == (t \div (24 * 3600)) * (24 * 3600) + 20 * 3600
    IN  IF t >= evening THEN evening + 24 * 3600 ELSE evening

(***************************************************************************)
(* main(), lines 434-492: send the startup notification, start the timer   *)
(* loops, subscribe, initialise the heartbeat, start the watchdog task,    *)
(* whose first statement is the sleep of watchdog.py:54.                   *)
(***************************************************************************)
Main ==
    /\ ~started
    /\ started' = TRUE
    /\ startup_sent' = notify
    /\ status_next' = Some(next_run(now))
    /\ exit_pc' = IF scheduled_exit THEN "until8pm" ELSE "off"
    /\ exit_wake' = IF scheduled_exit THEN exit_time(now) ELSE exit_wake
    /\ UNCHANGED <<status_sent, status_result>>
    /\ subscriptions' = subscriptions + 1
    /\ active' = active \cup {subscriptions + 1}
    /\ unsubscribe_fn' = subscriptions + 1
    /\ last_ws_message_at' = update_ws_heartbeat(heartbeat, now)[1]
    /\ connection_start_time' = update_ws_heartbeat(heartbeat, now)[2]
    /\ wd_pc' = "sleep"
    /\ wd_wake' = now + check_interval
    /\ heard' = FALSE
    /\ UNCHANGED <<now, ticks, config, night, exit_code, reconnect_failure_count, wd_now, checks,
                   wd_calls, unsubscribe_calls, history, handlers>>

(***************************************************************************)
(* The clock.                                                              *)
(***************************************************************************)
Tick(deltas, horizon) ==
    /\ started
    /\ exit_code = None
    /\ \E d \in deltas :
        /\ now + d <= StartClock + horizon
        /\ now' = now + d
    /\ ticks' = ticks + 1
    /\ UNCHANGED <<config, night, scheduler, started, exit_code, heartbeat, supervisor, history, handlers>>

(***************************************************************************)
(* run_twice_daily_status and run_scheduled_exit.                          *)
(***************************************************************************)
\* StatusPulse with its notification counted like one sent for an event
StatusPulseRecorded ==
    /\ started
    /\ exit_code = None
    /\ status_next # None
    /\ now >= status_next[1]
    /\ status_sent' = IF notify THEN status_sent + 1 ELSE status_sent
    /\ \E ok \in BOOLEAN :
         status_result' = IF ~notify THEN "off" ELSE IF ok THEN "sent" ELSE "failed"
    /\ status_next' = Some(next_run(now))
    /\ last_notification_time' = IF notify THEN Some(now) ELSE last_notification_time
    /\ UNCHANGED <<now, ticks, config, night, startup_sent, exit_pc, exit_wake, started, exit_code,
                   heartbeat, supervisor, last_alarm_time,
                   last_person_notification_by_camera, handlers>>

\* main.py:193-209 and 179-191: the sleep to next_run has ended; "System
\* online" is sent if notifications are on, and the next run is computed
StatusPulse ==
    /\ started
    /\ exit_code = None
    /\ status_next # None
    /\ now >= status_next[1]
    /\ status_sent' = IF notify THEN status_sent + 1 ELSE status_sent
    /\ \E ok \in BOOLEAN :
         status_result' = IF ~notify THEN "off" ELSE IF ok THEN "sent" ELSE "failed"
    /\ status_next' = Some(next_run(now))
    /\ UNCHANGED <<now, ticks, config, night, startup_sent, exit_pc, exit_wake, started, exit_code,
                   heartbeat, supervisor, history, handlers>>

\* ScheduledExitGrace without the sleep of line 238
ScheduledExitNoGrace ==
    /\ exit_code = None
    /\ exit_pc = "until8pm"
    /\ now >= exit_wake
    /\ exit_pc' = "grace"
    /\ exit_wake' = now
    /\ UNCHANGED <<now, ticks, config, night, startup_sent, status_next, status_sent, status_result,
                   started,
                   exit_code, heartbeat, supervisor, history, handlers>>

\* main.py:231-238: the sleep to 20:00 has ended, 5 more seconds follow
ScheduledExitGrace ==
    /\ exit_code = None
    /\ exit_pc = "until8pm"
    /\ now >= exit_wake
    /\ exit_pc' = "grace"
    /\ exit_wake' = now + 5
    /\ UNCHANGED <<now, ticks, config, night, startup_sent, status_next, status_sent, status_result,
                   started,
                   exit_code, heartbeat, supervisor, history, handlers>>

\* the event loop runs the timers that are due in the order of their
\* deadlines: the status loop, when its sleep ended before `deadline`, is
\* resumed before the task that sleeps until `deadline`
EarlierTimerDue(deadline) ==
    status_next # None /\ status_next[1] <= now /\ status_next[1] < deadline

\* main.py:238-243: sys.exit(0)
ScheduledExit ==
    /\ exit_code = None
    /\ exit_pc = "grace"
    /\ now >= exit_wake
    /\ ~EarlierTimerDue(exit_wake)
    /\ exit_code' = Some(0)
    /\ UNCHANGED <<now, ticks, config, night, scheduler, started, heartbeat, supervisor, history,
                   handlers>>

(***************************************************************************)
(* WebsocketWatchdog.run, watchdog.py:50-112.                              *)
(***************************************************************************)
\* Staleness with the thresholds themselves counted as exceeded (>= for >)
\* Staleness with lines 70-76 left out: a heartbeat, once there, is never stale
StalenessInitialOnly(t, last_message, connection_start) ==
    IF last_message = None
    THEN IF connection_start # None
         THEN IF t - connection_start[1] > WEBSOCKET_INITIAL_TIMEOUT THEN "stale" ELSE "live"
         ELSE "skip"
    ELSE "live"

StalenessAtThreshold(t, last_message, connection_start) ==
    IF last_message = None
    THEN IF connection_start # None
         THEN IF t - connection_start[1] >= WEBSOCKET_INITIAL_TIMEOUT THEN "stale" ELSE "live"
         ELSE "skip"
    ELSE IF t - last_message[1] >= WEBSOCKET_STALE_SECONDS THEN "stale" ELSE "live"

\* lines 58-76: "skip" (the `continue` of line 69), "stale" or "live"
Staleness(t, last_message, connection_start) ==
    IF last_message = None
    THEN IF connection_start # None
         THEN IF t - connection_start[1] > WEBSOCKET_INITIAL_TIMEOUT THEN "stale" ELSE "live"
         ELSE "skip"
    ELSE IF t - last_message[1] > WEBSOCKET_STALE_SECONDS THEN "stale" ELSE "live"

\* lines 79-84: calling the handle h.  The call removes the subscription, or it
\* raises (caught and logged) and the subscription may or may not be gone; a
\* handle that is not active any more can only raise.
UnsubscribeOutcomes(h) ==
    IF h \in active THEN {active \ {h}, active} ELSE {active}

\* the watchdog with its timer running while a reconnection is under way
WatchdogIdleOrBusy == wd_pc \in {"sleep", "update"}

\* lines 52-54: the one watchdog task (main.py:492) is at the sleep of its loop
WatchdogIdle == wd_pc = "sleep"

\* the unsubscribe error taken by the handler of line 110, back to the sleep
AfterUnsubscribeAborting(raised) == IF raised THEN "sleep" ELSE "update"

\* lines 79-86: whether or not the unsubscribe call raised (caught at line 82),
\* the check goes on to await protect.update()
AfterUnsubscribe(raised) == "update"

\* One periodic check, from the end of the sleep of line 54 to the next
\* suspension: the sleep of the next iteration, or the await of line 86.
WatchdogCheck ==
    /\ WatchdogIdle
    /\ exit_code = None
    /\ now >= wd_wake
    /\ checks < MaxChecks
    /\ checks' = checks + 1
    /\ IF Staleness(now, last_ws_message_at, connection_start_time) = "stale"
       THEN \E raised \in BOOLEAN :
            /\ wd_pc' = AfterUnsubscribe(raised)
            /\ wd_now' = now
            /\ active' \in (IF unsubscribe_fn # 0
                            THEN UnsubscribeOutcomes(unsubscribe_fn)
                            ELSE {active})
            /\ ~raised => active' = active \ {unsubscribe_fn}
            /\ ~raised => unsubscribe_fn \in active
            /\ unsubscribe_calls' = IF unsubscribe_fn # 0
                                    THEN Append(unsubscribe_calls, unsubscribe_fn)
                                    ELSE unsubscribe_calls
            /\ wd_calls' = [unsubscribe |-> IF raised THEN "raised" ELSE "ok",
                            update |-> "pending"]
            /\ UNCHANGED wd_wake
       ELSE /\ wd_pc' = "sleep"
            /\ wd_wake' = now + check_interval
            /\ UNCHANGED <<wd_now, active, wd_calls, unsubscribe_calls>>
    /\ UNCHANGED <<now, ticks, config, night, scheduler, started, exit_code, heartbeat, reconnect_failure_count,
                   unsubscribe_fn, subscriptions, heard, history, handlers>>

\* ResubscribeSuccess without the calls of lines 95-96
ResubscribeSuccessKeepingHeartbeat ==
    /\ subscriptions' = subscriptions + 1
    /\ active' = active \cup {subscriptions + 1}
    /\ unsubscribe_fn' = subscriptions + 1
    /\ UNCHANGED heartbeat
    /\ reconnect_failure_count' = 0
    /\ heard' = FALSE
    /\ UNCHANGED exit_code

\* lines 90-99: protect.subscribe_websocket(cb) returned a new handle
ResubscribeSuccess ==
    LET hb == update_ws_heartbeat(reset_connection_start_time(heartbeat, wd_now), wd_now)
    IN  /\ subscriptions' = subscriptions + 1
        /\ active' = active \cup {subscriptions + 1}
        /\ unsubscribe_fn' = subscriptions + 1
        /\ last_ws_message_at' = hb[1]
        /\ connection_start_time' = hb[2]
        /\ reconnect_failure_count' = 0
        /\ heard' = FALSE
        /\ UNCHANGED exit_code

\* ResubscribeFailure giving up only after more than max_reconnect_failures
ResubscribeFailureLate ==
    /\ reconnect_failure_count' = reconnect_failure_count + 1
    /\ exit_code' = IF reconnect_failure_count + 1 > max_reconnect_failures
                    THEN Some(1) ELSE exit_code
    /\ UNCHANGED <<subscriptions, active, unsubscribe_fn, heartbeat, heard>>

\* ResubscribeFailure without the exit of lines 104-109
ResubscribeFailureContinuing ==
    /\ reconnect_failure_count' = reconnect_failure_count + 1
    /\ UNCHANGED exit_code
    /\ UNCHANGED <<subscriptions, active, unsubscribe_fn, heartbeat, heard>>

\* lines 100-109: the import or the subscribe call raised
ResubscribeFailure ==
    /\ reconnect_failure_count' = reconnect_failure_count + 1
    /\ exit_code' = IF reconnect_failure_count + 1 >= max_reconnect_failures
                    THEN Some(1) ELSE exit_code
    /\ UNCHANGED <<subscriptions, active, unsubscribe_fn, heartbeat, heard>>

\* The rest of a stale check, from the return (or the logged failure) of
\* protect.update() at line 86 to the sleep of the next iteration.
WatchdogResubscribe ==
    /\ wd_pc = "update"
    /\ exit_code = None
    /\ \E raised \in BOOLEAN :
         wd_calls' = [wd_calls EXCEPT !.update = IF raised THEN "raised" ELSE "ok"]
    /\ \/ ResubscribeSuccess
       \/ ResubscribeFailure
    /\ wd_pc' = "sleep"
    /\ wd_wake' = now + check_interval
    /\ UNCHANGED <<now, ticks, config, night, scheduler, started, wd_now, checks, unsubscribe_calls,
                   history, handlers>>

(***************************************************************************)
(* Notification policy, main.py:56-74 and 295-353.                         *)
(***************************************************************************)
\* main.py:62-70 without the second return: every window taken as a normal one
NightWindowNoWrap(hour, minute, start, end) ==
    LET minutes == hour * 60 + minute
        start_minutes == start[1] * 60 + start[2]
        end_minutes == end[1] * 60 + end[2]
    IN  start_minutes <= minutes /\ minutes < end_minutes

\* main.py:62-70: the body of is_night for the hour and minute of `now` and the
\* values of NIGHT_START and NIGHT_END
NightWindow(hour, minute, start, end) ==
    LET minutes == hour * 60 + minute
        start_minutes == start[1] * 60 + start[2]
        end_minutes == end[1] * 60 + end[2]
    IN  IF start_minutes <= end_minutes
        THEN start_minutes <= minutes /\ minutes < end_minutes
        ELSE minutes >= start_minutes \/ minutes < end_minutes

\* main.py:56-70, with now.hour and now.minute taken from the clock
is_night(t) == NightWindow((t \div 3600) % 24, (t \div 60) % 60, NIGHT_START, NIGHT_END)

\* main.py:72-74
is_person_event(first_line) ==
    LET fl == Upper(first_line)
    IN  StartsWith(fl, ALARM_PERSON) \/ StartsWith(fl, OBSERVATION_PERSON)

\* main.py:297-299
Lines(analysis) == Split(Strip(analysis))
FirstLine(analysis) == Strip(Lines(analysis)[1])
Message(analysis) == IF Len(Lines(analysis)) > 1 THEN Lines(analysis)[2] ELSE <<>>
\* main.py:339
Title(analysis) == Capitalize(Lower(Lines(analysis)[1]))

\* Everything the callback reads off the analysis text (lines 295-340)
Read(analysis) ==
    [nothing |-> StartsWith(analysis, NOTHING_TO_REPORT),
     alarm |-> StartsWith(analysis, ALARM),
     observation |-> StartsWith(analysis, OBSERVATION),
     alarm_person |-> StartsWith(Upper(FirstLine(analysis)), ALARM_PERSON),
     person |-> is_person_event(FirstLine(analysis)),
     message |-> Message(analysis),
     title |-> Title(analysis)]
\* Read, tabulated over the analysis results of the model
ReadTable == [a \in Analyses |-> Read(a)]

\* main.py:304: an alarm was sent in the last minute
AlarmBackoff(h, t) ==
    h.last_alarm_time # None /\ t - h.last_alarm_time[1] < ALARM_BACKOFF_SECONDS

\* AlarmPriority with the person downgrade applied at night as well
AlarmPriorityAnyHour(r, t) ==
    IF r.alarm_person THEN 0 ELSE 1

\* AlarmPriority without the person rule of lines 309-315
AlarmPriorityUrgent(r, t) == 1

\* main.py:309-317: priority of an alarm outside the backoff period
AlarmPriority(r, t) ==
    IF r.alarm_person
    THEN IF ~is_night(t) THEN 0 ELSE 1
    ELSE 1

\* main.py:321: any notification was sent in the last 10 seconds
ObservationBackoff(h, t) ==
    h.last_notification_time # None
    /\ t - h.last_notification_time[1] < OBSERVATION_BACKOFF_SECONDS

\* main.py:330-331: a person notification for this camera inside the dedupe window
PersonDedupeWindow(prev, t) ==
    prev # None /\ t - prev[1].timestamp < PERSON_DEDUPE_MINUTES * 60

\* what the comparison request can come to: an exception, or the model's answer
SAME == <<"S", "A", "M", "E">>
DIFFERENT == <<"D", "I", "F", "F", "E", "R", "E", "N", "T">>
CompareOutcomes ==
    {[called |-> TRUE, raised |-> TRUE, content |-> <<>>]}
    \cup {[called |-> TRUE, raised |-> FALSE, content |-> c] : c \in {SAME, DIFFERENT}}

\* "SAME" in content
Contains(s, p) == \E i \in 1..(Len(s) - Len(p) + 1) : SubSeq(s, i, i + Len(p) - 1) = p

\* compare_description answering "same" when the request fails
compare_descriptionFailClosed(cmp) ==
    IF cmp.raised THEN TRUE ELSE Contains(Upper(Strip(cmp.content)), SAME)

\* images.py:161-194, given what the request came to
compare_description(cmp) ==
    IF cmp.raised THEN FALSE ELSE Contains(Upper(Strip(cmp.content)), SAME)

\* compare_description, tabulated over the outcomes of the model
CompareTable == [c \in CompareOutcomes |-> compare_description(c)]

\* ObservationSkipped with person observations let through to the dedupe
ObservationSkippedUnlessPerson(r, t, h) ==
    ~r.alarm /\ r.observation /\ ~r.person /\ ObservationBackoff(h, t)

\* ObservationSkipped with alarms inside the alarm backoff skipped as well
AnySkippedInBackoff(r, t, h) ==
    \/ r.alarm /\ AlarmBackoff(h, t)
    \/ ~r.alarm /\ r.observation /\ ObservationBackoff(h, t)

\* main.py:319-323: the observation is skipped before anything else is done
ObservationSkipped(r, t, h) ==
    ~r.alarm /\ r.observation /\ ObservationBackoff(h, t)

\* ComparatorCalled with the sighting of any camera standing for this one's
ComparatorCalledAnyCamera(r, t, camera_name, h) ==
    /\ ~ObservationSkipped(r, t, h)
    /\ r.person
    /\ \E c \in Cameras : PersonDedupeWindow(h.persons[c], t)
    /\ r.message # <<>>

\* main.py:329-332: compare_description is called
ComparatorCalled(r, t, camera_name, h) ==
    /\ ~ObservationSkipped(r, t, h)
    /\ r.person
    /\ PersonDedupeWindow(h.persons[camera_name], t)
    /\ r.message # <<>>

\* PriorityStep with an alarm in the backoff period restarting the period
PriorityStepExtending(r, t, h) ==
    IF r.alarm
    THEN IF AlarmBackoff(h, t)
         THEN [priority |-> 0, history |-> [h EXCEPT !.last_alarm_time = Some(t)]]
         ELSE [priority |-> AlarmPriority(r, t),
               history |-> [h EXCEPT !.last_alarm_time = Some(t)]]
    ELSE [priority |-> -2, history |-> h]

\* main.py:302-326: the priority, and the history after the alarm bookkeeping
PriorityStep(r, t, h) ==
    IF r.alarm
    THEN IF AlarmBackoff(h, t)
         THEN [priority |-> 0, history |-> h]
         ELSE [priority |-> AlarmPriority(r, t),
               history |-> [h EXCEPT !.last_alarm_time = Some(t)]]
    ELSE [priority |-> -2, history |-> h]

\* RecordDispatch with last_notification_time kept for observations only
RecordDispatchObservationsOnly(r, t, camera_name, h) ==
    [h EXCEPT !.last_notification_time = IF r.alarm THEN @ ELSE Some(t),
              !.persons = IF r.person
                          THEN [@ EXCEPT ![camera_name] =
                                   Some([description |-> r.message, timestamp |-> t])]
                          ELSE @]

\* main.py:350-353: the history after send_notification was called
RecordDispatch(r, t, camera_name, h) ==
    [h EXCEPT !.last_notification_time = Some(t),
              !.persons = IF r.person
                          THEN [@ EXCEPT ![camera_name] =
                                   Some([description |-> r.message, timestamp |-> t])]
                          ELSE @]

\* decide with a deduplicated event recorded like a dispatched one
decideRecordingSuppressed(r, t, camera_name, h, cmp) ==
    LET p == PriorityStep(r, t, h)
    IN  IF ObservationSkipped(r, t, h)
        THEN [outcome |-> "backoff", priority |-> None, history |-> h]
        ELSE IF ComparatorCalled(r, t, camera_name, h) /\ CompareTable[cmp]
        THEN [outcome |-> "dedupe", priority |-> Some(p.priority),
              history |-> RecordDispatch(r, t, camera_name, p.history)]
        ELSE [outcome |-> "dispatched", priority |-> Some(p.priority),
              history |-> RecordDispatch(r, t, camera_name, p.history)]

\* decide with a deduplicated event leaving the whole history as it found it
decideRollingBack(r, t, camera_name, h, cmp) ==
    LET p == PriorityStep(r, t, h)
    IN  IF ObservationSkipped(r, t, h)
        THEN [outcome |-> "backoff", priority |-> None, history |-> h]
        ELSE IF ComparatorCalled(r, t, camera_name, h) /\ CompareTable[cmp]
        THEN [outcome |-> "dedupe", priority |-> Some(p.priority), history |-> h]
        ELSE [outcome |-> "dispatched", priority |-> Some(p.priority),
              history |-> RecordDispatch(r, t, camera_name, p.history)]

\* main.py:296-353: the decision for an analysis that is to be notified, as
\* [outcome, priority, history]; r is what was read off the analysis and
\* cmp what the comparison came to, if it is called
decide(r, t, camera_name, h, cmp) ==
    LET p == PriorityStep(r, t, h)
    IN  IF ObservationSkipped(r, t, h)
        THEN [outcome |-> "backoff", priority |-> None, history |-> h]
        ELSE IF ComparatorCalled(r, t, camera_name, h) /\ CompareTable[cmp]
        THEN [outcome |-> "dedupe", priority |-> Some(p.priority), history |-> p.history]
        ELSE [outcome |-> "dispatched", priority |-> Some(p.priority),
              history |-> RecordDispatch(r, t, camera_name, p.history)]

\* Notifiable without the test for "NOTHING TO REPORT"
NotifiableAnyText(analysis) ==
    analysis # <<>> /\ notify

\* main.py:286 and 295: there is an analysis and it is to be notified
Notifiable(analysis) ==
    analysis # <<>> /\ notify /\ ~ReadTable[analysis].nothing

(***************************************************************************)
(* The websocket callback, main.py:246-362.                                *)
(***************************************************************************)
Messages ==
    {[action |-> "ADD", new_obj |-> "Camera", camera |-> "Front", motion |-> TRUE],
     [action |-> "REMOVE", new_obj |-> "none", camera |-> "Front", motion |-> FALSE],
     [action |-> "UPDATE", new_obj |-> "none", camera |-> "Front", motion |-> FALSE],
     [action |-> "UPDATE", new_obj |-> "Light", camera |-> "Front", motion |-> TRUE]}
    \cup {[action |-> "UPDATE", new_obj |-> "Camera", camera |-> c, motion |-> m] :
            c \in Cameras, m \in BOOLEAN}

\* lines 264-281: the message reaches process_camera_image
Analysed(msg) ==
    /\ msg.action = "UPDATE"
    /\ msg.new_obj = "Camera"
    /\ (camera_filter = None \/ msg.camera = camera_filter[1])
    /\ (test_mode \/ msg.motion)

\* A message delivered by an active subscription: the callback from its start
\* (line 256) to its return or to the await of line 285.
HandleMessage(msg) ==
    /\ started
    /\ exit_code = None
    /\ active # {}
    /\ last_ws_message_at' = update_ws_heartbeat(heartbeat, now)[1]
    /\ connection_start_time' = update_ws_heartbeat(heartbeat, now)[2]
    /\ IF Analysed(msg)
       THEN /\ handled < MaxEvents
            /\ handled' = handled + 1
            /\ inflight' = [inflight EXCEPT ![msg.camera] = @ + 1]
       ELSE UNCHANGED <<handled, inflight>>
    /\ heard' = TRUE
    /\ UNCHANGED <<now, ticks, config, night, scheduler, started, exit_code, reconnect_failure_count,
                   unsubscribe_fn, active, subscriptions, wd_pc, wd_wake, wd_now, checks,
                   wd_calls, unsubscribe_calls, history, person_sent, decision, running>>

\* Lines 286-353 of the callback for the analysis that process_camera_image
\* returned: no analysis (line 286), nothing to notify (line 295), or the
\* decision.  t is current_time (line 296) and h the history the callback
\* finds; cmp is what the comparison request comes to and delivered what
\* send_notification returns (line 342), which the callback discards.
Conclude(camera_name, analysis, cmp, delivered, t, h) ==
    IF ~Notifiable(analysis)
    THEN /\ ~cmp.called
         /\ ~delivered
         /\ decision' = [n |-> decision.n + 1, camera |-> camera_name,
                         analysis |-> analysis, at |-> t,
                         outcome |-> IF analysis = <<>> THEN "no_analysis"
                                     ELSE IF ~notify THEN "notify_off" ELSE "nothing",
                         priority |-> None, cmp |-> cmp, delivered |-> FALSE]
         /\ UNCHANGED <<history, person_sent>>
    ELSE LET r == ReadTable[analysis]
             d == decide(r, t, camera_name, h, cmp)
         IN  /\ cmp.called = ComparatorCalled(r, t, camera_name, h)
             /\ delivered => d.outcome = "dispatched"
             /\ decision' = [n |-> decision.n + 1, camera |-> camera_name,
                             analysis |-> analysis, at |-> t, outcome |-> d.outcome,
                             priority |-> d.priority, cmp |-> cmp,
                             delivered |-> delivered]
             /\ last_alarm_time' = d.history.last_alarm_time
             /\ last_notification_time' = d.history.last_notification_time
             /\ last_person_notification_by_camera' = d.history.persons
             /\ person_sent' =
                  IF d.outcome = "dispatched" /\ r.person
                  THEN [person_sent EXCEPT ![camera_name] =
                           Some([description |-> r.message, timestamp |-> t])]
                  ELSE person_sent

\* lines 286-342: send_notification is called for the analysis
Dispatches(camera_name, analysis, cmp, t, h) ==
    /\ Notifiable(analysis)
    /\ cmp.called = ComparatorCalled(ReadTable[analysis], t, camera_name, h)
    /\ decide(ReadTable[analysis], t, camera_name, h, cmp).outcome = "dispatched"

\* Decide with a failed comparison or a missing analysis ending the process
DecideFatal(camera_name, analysis, cmp, delivered) ==
    /\ exit_code = None
    /\ inflight[camera_name] > 0
    /\ inflight' = [inflight EXCEPT ![camera_name] = @ - 1]
    /\ Conclude(camera_name, analysis, cmp, delivered, now, History)
    /\ exit_code' = IF cmp.raised \/ analysis = <<>> THEN Some(1) ELSE exit_code
    /\ UNCHANGED <<now, ticks, config, night, scheduler, started, heartbeat, supervisor, handled, running>>

\* The callback resumed when process_camera_image returns `analysis`, to its
\* end: nothing suspends it between line 286 and line 353.
Decide(camera_name, analysis, cmp, delivered) ==
    /\ exit_code = None
    /\ inflight[camera_name] > 0
    /\ inflight' = [inflight EXCEPT ![camera_name] = @ - 1]
    /\ Conclude(camera_name, analysis, cmp, delivered, now, History)
    /\ UNCHANGED <<now, ticks, config, night, scheduler, started, exit_code, heartbeat, supervisor, handled,
                   running>>

(***************************************************************************)
(* The same callback with its position inside lines 286-353 made explicit. *)
(***************************************************************************)
\* the event loop running a task while a callback is inside its section
EventLoopShared == TRUE

\* watchdog.py:31-38: every callback is a task of the one event loop
\* (call_soon_threadsafe + create_task), and a task that does not await keeps
\* the loop: nothing else runs while a callback is between two awaits
EventLoopFree == running = None

\* the callback resumed at line 285: it takes current_time (line 296) and
\* finds the history it goes on to test
Resume(camera_name, analysis) ==
    /\ exit_code = None
    /\ running = None
    /\ inflight[camera_name] > 0
    /\ inflight' = [inflight EXCEPT ![camera_name] = @ - 1]
    /\ running' = Some([camera |-> camera_name, analysis |-> analysis, at |-> now,
                        read |-> History])
    /\ UNCHANGED <<now, ticks, config, night, scheduler, started, exit_code, heartbeat, supervisor, history,
                   handled, person_sent, decision>>

\* the resumed callback to its end: the tests, the send and the assignments of
\* lines 302-353 on the history it found
Finish(cmp, delivered) ==
    /\ exit_code = None
    /\ running # None
    /\ Conclude(running[1].camera, running[1].analysis, cmp, delivered,
                running[1].at, running[1].read)
    /\ running' = None
    /\ UNCHANGED <<now, ticks, config, night, scheduler, started, exit_code, heartbeat, supervisor, inflight,
                   handled>>

\* another callback suspended at line 285 takes its whole turn
OtherHandlerRuns ==
    /\ EventLoopFree
    /\ \E c \in Cameras, a \in {<<>>} \cup Analyses,
          cmp \in {NotCalled} \cup CompareOutcomes :
            Decide(c, a, cmp, Dispatches(c, a, cmp, now, History))

(***************************************************************************)
(* Specifications.                                                         *)
(***************************************************************************)
\* messages the callback drops before any image is fetched
Ignored == {m \in Messages : m.action # "UPDATE" \/ m.new_obj # "Camera" \/ ~m.motion}

NextWatchdog ==
    \/ Main
    \/ Tick(WdDeltas, WdHorizon)
    \/ \E m \in Ignored : HandleMessage(m)
    \/ WatchdogCheck
    \/ WatchdogResubscribe

SpecWatchdog == InitWatchdog /\ [][NextWatchdog]_vars

\* The supervisor with the event loop doing its part: the clock goes on, the
\* sleep of watchdog.py:54 returns when its time has come, and the await of
\* line 86 returns or raises.
SpecWatchdogFair ==
    /\ SpecWatchdog
    /\ WF_vars(Tick(WdDeltas, WdHorizon))
    /\ WF_vars(WatchdogCheck)
    /\ WF_vars(WatchdogResubscribe)

\* the policy with a notification service that accepts every request
NextPolicy ==
    \/ Main
    \/ (ticks < MaxTicks /\ Tick(PolicyDeltas, 100000))
    \/ \E m \in Messages \ Ignored : HandleMessage(m)
    \/ \E c \in Cameras, a \in {<<>>} \cup Analyses,
          cmp \in {NotCalled} \cup CompareOutcomes :
            Decide(c, a, cmp, Dispatches(c, a, cmp, now, History))

SpecPolicy == InitPolicy /\ [][NextPolicy]_vars

\* the policy with a notification service whose requests may fail
NextDispatch ==
    \/ Main
    \/ (ticks < MaxTicks /\ Tick(DispatchDeltas, 100000))
    \/ \E m \in Messages \ Ignored : HandleMessage(m)
    \/ \E c \in Cameras, a \in {<<>>} \cup Analyses,
          cmp \in {NotCalled} \cup CompareOutcomes, delivered \in BOOLEAN :
            Decide(c, a, cmp, delivered)

SpecDispatch == InitPolicy /\ [][NextDispatch]_vars

\* callbacks whose messages come at the same instant, with notifications on
InitHandlers == InitPolicy /\ notify

NextHandlers ==
    \/ Main
    \/ \E m \in Messages \ Ignored : EventLoopFree /\ HandleMessage(m)
    \/ \E c \in Cameras, a \in {<<>>} \cup Analyses : Resume(c, a)
    \/ \E cmp \in {NotCalled} \cup CompareOutcomes :
         Finish(cmp, Dispatches(running[1].camera, running[1].analysis, cmp,
                                running[1].at, running[1].read))
    \/ OtherHandlerRuns

SpecHandlers == InitHandlers /\ [][NextHandlers]_vars

\* the whole program: the callback, the watchdog and the two timer loops,
\* with one camera and two analysis results
ProgramAnalyses == {a \in Analyses : ReadTable[a].alarm_person \/ ReadTable[a].nothing}

InitProgram ==
    /\ Boot
    /\ WEBSOCKET_STALE_SECONDS = DefaultStaleSeconds
    /\ WEBSOCKET_INITIAL_TIMEOUT = DefaultInitialTimeout
    /\ notify \in BOOLEAN
    /\ camera_filter = None
    /\ test_mode = FALSE
    /\ scheduled_exit \in BOOLEAN

NextProgram ==
    \/ Main
    \/ (ticks < MaxTicks /\ Tick(ProgramDeltas, 100000))
    \/ \E m \in Messages \ Ignored : m.camera = "Front" /\ HandleMessage(m)
    \/ \E a \in ProgramAnalyses, cmp \in {NotCalled} \cup CompareOutcomes :
         Decide("Front", a, cmp, Dispatches("Front", a, cmp, now, History))
    \/ WatchdogCheck
    \/ WatchdogResubscribe
    \/ StatusPulse
    \/ ScheduledExitGrace
    \/ ScheduledExit

SpecProgram == InitProgram /\ [][NextProgram]_vars

(***************************************************************************)
(* Properties of the stream supervisor, checked under SpecWatchdog.        *)
(***************************************************************************)
\* a step that is one periodic check of the watchdog
CheckStep == checks' = checks + 1
\* a step that ends a resubscription attempt, and whether the attempt failed
AttemptStep == wd_pc = "update" /\ wd_pc' = "sleep"
AttemptFailed == subscriptions' = subscriptions

\* C1: for every stale threshold, a periodic check made with the heartbeat at
\* t0 declares the stream stale and starts a resubscription (the handle is
\* called, the session refresh is awaited, the subscribe attempt follows) if
\* and only if it is made later than t0 + WEBSOCKET_STALE_SECONDS.
C1_StaleAfterThreshold ==
    [][(CheckStep /\ last_ws_message_at # None) =>
         LET late == now - last_ws_message_at[1] > WEBSOCKET_STALE_SECONDS
         IN  /\ late => (wd_pc' = "update" /\ wd_now' = now /\ active' \subseteq active)
             /\ ~late => (wd_pc' = "sleep" /\ active' = active
                           /\ UNCHANGED <<heartbeat, unsubscribe_fn>>)]_vars

\* C1 witness: a check has just found a heartbeat older than the threshold,
\* although a stream message had arrived on this subscription
C1_Witness ==
    /\ wd_pc = "update"
    /\ wd_now = now
    /\ heard
    /\ last_ws_message_at # None
    /\ now - last_ws_message_at[1] > WEBSOCKET_STALE_SECONDS

\* C2: after a subscription at time c with no stream message since, a check
\* later than c + WEBSOCKET_INITIAL_TIMEOUT declares the stream stale and a
\* check earlier than that leaves it live.
C2_InitialTimeout ==
    [][(CheckStep /\ ~heard /\ connection_start_time # None) =>
         LET age == now - connection_start_time[1]
         IN  /\ age > WEBSOCKET_INITIAL_TIMEOUT => wd_pc' = "update"
             /\ age < WEBSOCKET_INITIAL_TIMEOUT => wd_pc' = "sleep"]_vars

\* C3: the process exits, with status 1, exactly at the end of the third
\* resubscription attempt in a row that failed; the count of failures in a row
\* goes up by one at each failed attempt and back to 0 at a successful one, and
\* after a first or second failure the watchdog goes back to its periodic sleep.
C3_Escalation ==
    [][/\ AttemptStep =>
            /\ AttemptFailed => reconnect_failure_count' = reconnect_failure_count + 1
            /\ ~AttemptFailed => reconnect_failure_count' = 0
            /\ (exit_code' # None) <=> (AttemptFailed /\ reconnect_failure_count = 2)
            /\ exit_code' \in {None, Some(1)}
       /\ exit_code' # exit_code => AttemptStep
       /\ ~AttemptStep => reconnect_failure_count' = reconnect_failure_count]_vars

\* C3 witness: the process has exited after three failures in a row that
\* followed a successful resubscription
C3_Witness ==
    /\ exit_code = Some(1)
    /\ reconnect_failure_count = 3
    /\ subscriptions >= 2

(***************************************************************************)
(* Properties of the notification policy, checked under SpecPolicy.        *)
(***************************************************************************)
\* a step in which the callback comes to its end for one analysed frame
DecideStep == decision'.n = decision.n + 1
\* such a step for an analysis that is there, with notifications switched on
NotifyStep == DecideStep /\ notify /\ decision'.analysis # <<>>
\* what the callback read off the analysis of the step, resp. of the last decision
ReadNext == ReadTable[decision'.analysis]
ReadLast == ReadTable[decision.analysis]
\* the priority the policy gives an event decided at t after the alarm at `last`
ExpectedPriority(r, t, last) ==
    IF ~r.alarm THEN -2
    ELSE IF last # None /\ t - last[1] < 60 THEN 0
    ELSE IF r.person /\ ~is_night(t) THEN 0 ELSE 1

\* C4: an alarm decided less than 60 seconds after last_alarm_time gets
\* priority 0, whatever its subject and whether or not it is night, and leaves
\* last_alarm_time as it was.
C4_AlarmInBackoff ==
    [][(/\ NotifyStep
        /\ ReadNext.alarm
        /\ last_alarm_time # None
        /\ now - last_alarm_time[1] < 60)
       => (decision'.priority = Some(0) /\ last_alarm_time' = last_alarm_time)]_vars

\* C4 witness: an alarm that is not about a person was sent at night with
\* priority 0, some seconds after the alarm that last_alarm_time still records
C4_Witness ==
    /\ decision.analysis # <<>>
    /\ ReadLast.alarm
    /\ ~ReadLast.person
    /\ decision.outcome = "dispatched"
    /\ decision.priority = Some(0)
    /\ is_night(decision.at)
    /\ last_alarm_time # None
    /\ last_alarm_time[1] < decision.at
    /\ decision.at - last_alarm_time[1] < 60

\* C5: an alarm decided with no last_alarm_time, or 60 seconds or more after
\* it, gets priority 0 if it is about a person and it is not night, priority 1
\* otherwise, and sets last_alarm_time to the time of the decision.
C5_AlarmOutsideBackoff ==
    [][(/\ NotifyStep
        /\ ReadNext.alarm
        /\ (last_alarm_time = None \/ now - last_alarm_time[1] >= 60))
       => (/\ decision'.priority =
                 Some(IF ReadNext.person /\ ~is_night(now) THEN 0 ELSE 1)
           /\ last_alarm_time' = Some(now))]_vars

\* C5 witness: the first event decided is a person alarm by day, which got
\* priority 0 and set last_alarm_time
C5_Witness ==
    /\ decision.n = 1
    /\ decision.analysis # <<>>
    /\ ReadLast.alarm
    /\ ReadLast.person
    /\ ~is_night(decision.at)
    /\ decision.priority = Some(0)
    /\ last_alarm_time = Some(decision.at)

\* C6: an observation decided less than 10 seconds after
\* last_notification_time is dropped: nothing is sent, compare_description is
\* not called even for a person, and the three history fields stay as they were.
C6_ObservationInBackoff ==
    [][(/\ NotifyStep
        /\ ReadNext.observation
        /\ last_notification_time # None
        /\ now - last_notification_time[1] < 10)
       => (/\ decision'.outcome = "backoff"
           /\ decision'.priority = None
           /\ ~decision'.cmp.called
           /\ UNCHANGED <<history, person_sent>>)]_vars

\* C6 witness: a person observation with a description was dropped by the
\* backoff although its camera has a sighting inside the dedupe window
C6_Witness ==
    /\ decision.outcome = "backoff"
    /\ ReadLast.person
    /\ ReadLast.message # <<>>
    /\ last_person_notification_by_camera[decision.camera] # None
    /\ decision.at - last_person_notification_by_camera[decision.camera][1].timestamp < 600
    /\ ~decision.cmp.called

\* C7: a person alarm or observation on a camera that the observation backoff
\* did not drop is suppressed as a repeat if and only if that camera has a
\* sighting, the sighting is less than 10 minutes old, the new description is
\* not empty and compare_description answers true; otherwise it is sent and the
\* camera's sighting becomes the new description and the time of the
\* decision.  The sightings of the other cameras play no part and are left alone.
C7_PersonDedupe ==
    [][(NotifyStep /\ ReadNext.person /\ decision'.outcome # "backoff") =>
         LET camera_name == decision'.camera
             prev == last_person_notification_by_camera[camera_name]
             comparable == /\ prev # None
                           /\ now - prev[1].timestamp < 10 * 60
                           /\ ReadNext.message # <<>>
             same == /\ comparable
                     /\ decision'.cmp.called
                     /\ CompareTable[decision'.cmp]
         IN  /\ decision'.cmp.called <=> comparable
             /\ decision'.outcome = "dedupe" <=> same
             /\ ~same =>
                  /\ decision'.outcome = "dispatched"
                  /\ last_person_notification_by_camera'[camera_name] =
                       Some([description |-> ReadNext.message, timestamp |-> now])
             /\ \A c \in Cameras \ {camera_name} :
                  last_person_notification_by_camera'[c] =
                    last_person_notification_by_camera[c]]_vars

\* C7 witness: a person event was suppressed as a repeat of the sighting its
\* camera recorded earlier, after compare_description answered SAME
C7_Witness ==
    /\ decision.outcome = "dedupe"
    /\ decision.cmp.called
    /\ decision.cmp.content = SAME
    /\ last_person_notification_by_camera[decision.camera] # None
    /\ last_person_notification_by_camera[decision.camera][1].timestamp < decision.at

\* C8: when the request made by compare_description fails, the person event
\* is sent with the priority computed before the comparison, and the history
\* is updated as for any notification sent: a failed comparison suppresses
\* nothing.
C8_ComparatorFailure ==
    [][(NotifyStep /\ decision'.cmp.called /\ decision'.cmp.raised) =>
         /\ decision'.outcome = "dispatched"
         /\ decision'.priority = Some(ExpectedPriority(ReadNext, now, last_alarm_time))
         /\ last_notification_time' = Some(now)
         /\ last_person_notification_by_camera'[decision'.camera] =
              Some([description |-> ReadNext.message, timestamp |-> now])
         /\ person_sent'[decision'.camera] =
              Some([description |-> ReadNext.message, timestamp |-> now])]_vars

\* C8 witness: the comparison failed for the last event decided, which was sent
C8_Witness ==
    /\ decision.cmp.called
    /\ decision.cmp.raised
    /\ decision.outcome = "dispatched"
    /\ last_notification_time = Some(decision.at)

\* C9: whatever the history, an analysis that says there is nothing to report
\* sends no notification and leaves last_alarm_time, last_notification_time
\* and the sightings as they were.
C9_NothingToReport ==
    [][(DecideStep /\ decision'.analysis # <<>> /\ ReadNext.nothing) =>
         /\ decision'.outcome \in {"nothing", "notify_off"}
         /\ decision'.priority = None
         /\ ~decision'.cmp.called
         /\ UNCHANGED <<history, person_sent>>]_vars

\* C9 witness: nothing was to be reported for the last frame, with
\* notifications on and all three history fields set by an earlier event
C9_Witness ==
    /\ decision.outcome = "nothing"
    /\ notify
    /\ last_alarm_time # None
    /\ last_notification_time # None
    /\ last_person_notification_by_camera[decision.camera] # None

\* C10: each camera has at most one sighting, and it is always the description
\* and time of the last person notification sent for that camera; a person
\* event dropped by the observation backoff or suppressed as a repeat does not
\* change it.
C10_SightingIsLastSent ==
    /\ DOMAIN last_person_notification_by_camera = Cameras
    /\ \A c \in Cameras :
         /\ Len(last_person_notification_by_camera[c]) <= 1
         /\ last_person_notification_by_camera[c] = person_sent[c]

\* C10 witness: a person event was suppressed after the one whose description
\* and time its camera's sighting still holds
C10_Witness ==
    /\ decision.analysis # <<>>
    /\ ReadLast.person
    /\ decision.outcome \in {"backoff", "dedupe"}
    /\ person_sent[decision.camera] # None
    /\ person_sent[decision.camera][1].timestamp < decision.at
    /\ last_person_notification_by_camera[decision.camera] = person_sent[decision.camera]

\* C11: when process_camera_image comes back without an analysis, or the
\* send_notification call made for an event fails, the event ends with
\* last_alarm_time, last_notification_time and the sightings as they were
\* before it, and the process keeps running.
C11_FailureLeavesHistory ==
    [][(/\ DecideStep
        /\ \/ decision'.outcome = "no_analysis"
           \/ decision'.outcome = "dispatched" /\ ~decision'.delivered)
       => (UNCHANGED history /\ exit_code' = None)]_vars

(***************************************************************************)
(* Properties of callbacks in flight together, checked under SpecHandlers. *)
(***************************************************************************)
\* C12 as stated: a callback that has read the history for its tests can be
\* overtaken, before it writes, by another callback that is in flight.
C12_Interleaving ==
    (running # None /\ \E c \in Cameras : inflight[c] > 0) => ENABLED OtherHandlerRuns

\* C12, amended: callbacks in flight together take their turns at the history
\* one after the other; from its first read to its last write a callback is not
\* suspended, so the history it decides and writes on is the history it read.
C12_NoWriteBetweenReadAndWrite ==
    running # None => running[1].read = History

\* C12 witness: a callback has read the history for its tests on an alarm
\* while another callback, whose message came at the same instant, is in flight
C12_Witness ==
    /\ running # None
    /\ Notifiable(running[1].analysis)
    /\ ReadTable[running[1].analysis].alarm
    /\ running[1].at = StartClock
    /\ \E c \in Cameras : inflight[c] > 0

(***************************************************************************)
(* More properties of the stream supervisor, checked under SpecWatchdog.   *)
(***************************************************************************)
\* a step in which an unsubscribe, protect.update() or subscribe call is made
\* or returns
ReconnectCall ==
    \/ subscriptions' # subscriptions
    \/ unsubscribe_fn' # unsubscribe_fn
    \/ active' # active
    \/ wd_calls' # wd_calls

\* C13: at most one reconnection (unsubscribe, protect.update(), subscribe) is
\* under way at any time: no check, and so no other reconnection, starts while
\* one is under way; the one under way ends only with the success or the
\* failure of its subscribe call; and after main() has subscribed, only steps
\* of the watchdog task make any of the three calls.
C13_OneReconnection ==
    [][/\ CheckStep => wd_pc = "sleep"
       /\ (wd_pc = "update" /\ wd_pc' # "update") =>
            /\ AttemptStep
            /\ \/ subscriptions' = subscriptions + 1
               \/ reconnect_failure_count' = reconnect_failure_count + 1
       /\ (wd_pc = "update" /\ ReconnectCall) => AttemptStep
       /\ (started /\ ReconnectCall) => (CheckStep \/ AttemptStep)]_vars

\* C13 witness: a reconnection is under way after an earlier one has ended
C13_Witness ==
    /\ wd_pc = "update"
    /\ wd_calls.update = "pending"
    /\ (subscriptions >= 2 \/ reconnect_failure_count >= 1)

(***************************************************************************)
(* Properties of failing collaborators, checked under SpecDispatch.        *)
(***************************************************************************)
\* the latest callback met a failure: no analysis came back, the comparison
\* request raised, or the notification request failed
FailedDecision ==
    \/ decision.outcome = "no_analysis"
    \/ decision.cmp.raised
    \/ decision.outcome = "dispatched" /\ ~decision.delivered
\* a stream message that needs no image analysis
QuietMessage == [action |-> "UPDATE", new_obj |-> "Camera", camera |-> "Front", motion |-> FALSE]

\* C14: no failure of the snapshot, the analysis, the comparison or the
\* notification request met while a stream message is handled ends the
\* process or the subscription: the callback never changes exit_code, and
\* after such a failure the next stream message is still taken and updates the
\* heartbeat.
C14_HandlerErrorsContained ==
    /\ [](FailedDecision => (exit_code = None /\ ENABLED HandleMessage(QuietMessage)))
    /\ [][DecideStep => (exit_code' = exit_code /\ active' = active
                         /\ started' = started)]_vars

\* C14 witness: after an event whose notification request failed, a later
\* stream message has been taken and has updated the heartbeat
C14_Witness ==
    /\ decision.outcome = "dispatched"
    /\ ~decision.delivered
    /\ exit_code = None
    /\ last_ws_message_at # None
    /\ last_ws_message_at[1] > decision.at

(***************************************************************************)
(* Properties of the whole program, checked under SpecProgram.             *)
(***************************************************************************)
\* C15: last_alarm_time, last_notification_time and the sightings change only
\* in the decision of a callback for a stream message: the checks and the
\* reconnections of the watchdog, the status loop with the notification it
\* sends, the scheduled-exit loop and main() with its startup notification
\* leave them as they are.
C15_HistoryOnlyByDecision ==
    [][/\ history' # history => (DecideStep /\ Notifiable(decision'.analysis))
       /\ (\/ CheckStep
           \/ AttemptStep
           \/ status_sent' # status_sent
           \/ status_next' # status_next
           \/ exit_pc' # exit_pc
           \/ exit_code' # exit_code
           \/ startup_sent' # startup_sent
           \/ started' # started) => UNCHANGED history]_vars

\* C15 witness: a status notification and the startup notification were sent
\* and the watchdog has reconnected, after the event whose time the history
\* still holds
C15_Witness ==
    /\ startup_sent
    /\ status_sent >= 1
    /\ subscriptions >= 2
    /\ last_notification_time # None
    /\ last_notification_time = Some(decision.at)
    /\ decision.at < now
(***************************************************************************)
(* is_night on its own: the function is called with hours and minutes from  *)
(* NightHours x NightMinutes for `now`, NIGHT_START and NIGHT_END.          *)
(***************************************************************************)
NightHours == {0, 1, 4, 12, 23}
NightMinutes == {0, 30, 59}
NightTimes == NightHours \X NightMinutes

InitNight ==
    /\ ModuleLoad
    /\ WEBSOCKET_STALE_SECONDS = DefaultStaleSeconds
    /\ WEBSOCKET_INITIAL_TIMEOUT = DefaultInitialTimeout
    /\ notify = FALSE
    /\ camera_filter = None
    /\ test_mode = FALSE
    /\ scheduled_exit = FALSE
    /\ night_input \in {Some([now |-> t, NIGHT_START |-> s, NIGHT_END |-> e]) :
                            t \in NightTimes, s \in NightTimes, e \in NightTimes}
    /\ night_result = None

\* main.py:56-70: one call of is_night
IsNightCall ==
    /\ night_input # None
    /\ night_result = None
    /\ LET in == night_input[1]
       IN  night_result' = Some(NightWindow(in.now[1], in.now[2], in.NIGHT_START, in.NIGHT_END))
    /\ UNCHANGED <<now, ticks, config, night_input, scheduler, started, exit_code, heartbeat,
                   supervisor, history, handlers>>

NextNight == IsNightCall

SpecNight == InitNight /\ [][NextNight]_vars

MinuteOfDay(hm) == hm[1] * 60 + hm[2]

\* C16: for every time of day and every window, is_night returns true exactly
\* when start <= minute < end if start <= end, and exactly when minute >= start
\* or minute < end if start > end.
C16_NightWindow ==
    night_result # None =>
        LET minute == MinuteOfDay(night_input[1].now)
            start == MinuteOfDay(night_input[1].NIGHT_START)
            end == MinuteOfDay(night_input[1].NIGHT_END)
        IN  /\ start <= end => (night_result[1] <=> (start <= minute /\ minute < end))
            /\ start > end => (night_result[1] <=> (minute >= start \/ minute < end))

\* C16 witness: with the window 23:00-01:00 the call made at 00:30 returned True
C16_Witness ==
    /\ night_input = Some([now |-> <<0, 30>>, NIGHT_START |-> <<23, 0>>, NIGHT_END |-> <<1, 0>>])
    /\ night_result = Some(TRUE)
(***************************************************************************)
(* More properties of the supervisor, checked under SpecWatchdog.          *)
(***************************************************************************)
\* the latest resubscription attempt succeeded and no stream message has
\* arrived since
FreshSubscription ==
    /\ subscriptions >= 2
    /\ reconnect_failure_count = 0
    /\ wd_pc = "sleep"
    /\ ~heard

C18_FailureCount ==
    /\ [](reconnect_failure_count \in 0..3)
    /\ [][/\ reconnect_failure_count' # reconnect_failure_count =>
               /\ AttemptStep
               /\ reconnect_failure_count' =
                    IF AttemptFailed THEN reconnect_failure_count + 1 ELSE 0
          /\ (AttemptStep /\ AttemptFailed) =>
               reconnect_failure_count' = reconnect_failure_count + 1
          /\ heard' # heard /\ heard' => reconnect_failure_count' = reconnect_failure_count
          /\ reconnect_failure_count = 3 =>
               (~CheckStep /\ ~AttemptStep /\ ~ReconnectCall /\ wd_pc' = wd_pc)]_vars

\* C18 witness: the count reached 3 with every unsubscribe and refresh of the
\* last check failing too, and the process is over
C18_Witness ==
    /\ reconnect_failure_count = max_reconnect_failures
    /\ wd_calls = [unsubscribe |-> "raised", update |-> "raised"]
    /\ subscriptions = 1
    /\ exit_code # None

\* the check of the step finds the stream stale
StaleCheckStep ==
    CheckStep /\ Staleness(now, last_ws_message_at, connection_start_time) = "stale"

\* C19: the check that finds the stream stale goes on to protect.update()
\* whether or not the unsubscribe call raised, and from there to the subscribe
\* step whether or not protect.update() raised; neither failure changes
\* reconnect_failure_count or ends the process: the count goes up exactly when
\* the subscribe step failed.
C19_OnlySubscribeCounts ==
    /\ [](wd_pc = "update" => ENABLED WatchdogResubscribe)
    /\ [][/\ StaleCheckStep =>
               /\ wd_calls'.unsubscribe \in {"ok", "raised"}
               /\ wd_pc' = "update"
               /\ reconnect_failure_count' = reconnect_failure_count
               /\ exit_code' = exit_code
          /\ AttemptStep =>
               /\ wd_calls'.update \in {"ok", "raised"}
               /\ wd_calls'.unsubscribe = wd_calls.unsubscribe
               /\ AttemptFailed <=> reconnect_failure_count' = reconnect_failure_count + 1
               /\ ~AttemptFailed =>
                    (subscriptions' = subscriptions + 1 /\ unsubscribe_fn' = subscriptions')]_vars

\* C19 witness: the unsubscribe call and protect.update() both raised, and the
\* subscribe step of the same check gave a new subscription with the count at 0
C19_Witness ==
    /\ wd_calls = [unsubscribe |-> "raised", update |-> "raised"]
    /\ wd_pc = "sleep"
    /\ reconnect_failure_count = 0
    /\ subscriptions >= 2
    /\ unsubscribe_fn = subscriptions
    /\ last_ws_message_at = Some(wd_now)

(***************************************************************************)
(* Progress of the supervisor, checked under SpecWatchdogFair.             *)
(***************************************************************************)
\* the process runs and the last stream message (or subscription) is more
\* than WEBSOCKET_STALE_SECONDS old
Silent ==
    /\ started
    /\ exit_code = None
    /\ last_ws_message_at # None
    /\ now - last_ws_message_at[1] > WEBSOCKET_STALE_SECONDS

\* the explored run still holds the next periodic check
CheckAhead ==
    /\ wd_pc = "sleep"
    /\ checks < MaxChecks
    /\ wd_wake <= StartClock + WdHorizon

\* the latest resubscription attempt succeeded: heartbeat reset, count at 0
Resubscribed ==
    /\ wd_pc = "sleep"
    /\ subscriptions >= 2
    /\ unsubscribe_fn = subscriptions
    /\ reconnect_failure_count = 0
    /\ (heard \/ heartbeat = <<Some(wd_now), Some(wd_now)>>)

\* C20: a silent stream does not stay unnoticed: with the periodic check and
\* the awaited calls scheduled fairly, a stream that is stale while a check is
\* still ahead leads to a resubscription attempt (unless a message arrives or
\* the process ends first), and every attempt leads to a resubscription that
\* succeeded, to the exit with status 1, or to a failure counted below 3 after
\* which the watchdog sleeps until its next check.  The process ends only with
\* status 1 and only at the third failure, and while it runs the watchdog is
\* either at its sleep, with the check enabled once the time has come, or in
\* an attempt that can end.
C20_SilenceIsNoticed ==
    /\ ((Silent /\ CheckAhead) ~> (wd_pc = "update" \/ ~Silent))
    /\ ((wd_pc = "update" /\ exit_code = None) ~>
            \/ Resubscribed
            \/ exit_code = Some(1)
            \/ (wd_pc = "sleep" /\ reconnect_failure_count \in 1..2))
    /\ [](exit_code # None =>
            (exit_code = Some(1) /\ reconnect_failure_count = max_reconnect_failures))
    /\ []((started /\ exit_code = None) =>
            \/ (wd_pc = "update" /\ ENABLED WatchdogResubscribe)
            \/ (wd_pc = "sleep" /\ ((now >= wd_wake /\ checks < MaxChecks)
                                       => ENABLED WatchdogCheck)))

\* C20 witness: the stream stayed silent from the subscription on and the
\* process ended with status 1
C20_Witness ==
    /\ exit_code = Some(1)
    /\ ~heard
    /\ last_ws_message_at = Some(StartClock)
    /\ now - StartClock > WEBSOCKET_STALE_SECONDS

(***************************************************************************)
(* More properties of the notification policy, checked under SpecPolicy.   *)
(***************************************************************************)
\* the history as the step leaves it
HistoryNext == [last_alarm_time |-> last_alarm_time',
                last_notification_time |-> last_notification_time',
                persons |-> last_person_notification_by_camera']

\* C21: a person alarm decided outside the alarm backoff and then suppressed
\* by the person dedupe keeps the last_alarm_time = now it assigned before the
\* comparison, while last_notification_time and the sightings stay as they
\* were; so any alarm decided in the next 60 seconds gets priority 0.
C21_SuppressedAlarmKeepsAlarmTime ==
    [][(/\ NotifyStep
        /\ ReadNext.alarm
        /\ ReadNext.person
        /\ (last_alarm_time = None \/ now - last_alarm_time[1] >= 60)
        /\ decision'.outcome = "dedupe")
       => (/\ last_alarm_time' = Some(now)
           /\ last_notification_time' = last_notification_time
           /\ last_person_notification_by_camera' = last_person_notification_by_camera
           /\ \A a \in Analyses, d \in 0..59 :
                 ReadTable[a].alarm =>
                   PriorityStep(ReadTable[a], now + d, HistoryNext).priority = 0)]_vars

\* C21 witness: a person alarm was suppressed as a repeat of an earlier
\* sighting and its time is the last_alarm_time, later than the last
\* notification
C21_Witness ==
    /\ decision.outcome = "dedupe"
    /\ decision.analysis # <<>>
    /\ ReadLast.alarm
    /\ ReadLast.person
    /\ last_alarm_time = Some(decision.at)
    /\ last_notification_time # None
    /\ last_notification_time[1] < decision.at

\* C22: an event to be notified that neither backoff nor dedupe suppresses
\* is handed to send_notification and sets last_notification_time to the time
\* of its decision, whatever its priority; nothing else assigns
\* last_notification_time, so it is unset or the decision time of the latest
\* event handed to send_notification.
C22_LastNotificationTime ==
    /\ [](/\ Len(last_notification_time) <= 1
          /\ last_notification_time # None => last_notification_time[1] <= now
          /\ decision.outcome = "dispatched" =>
               last_notification_time = Some(decision.at))
    /\ [][/\ (NotifyStep /\ ~ReadNext.nothing) =>
               /\ decision'.at = now
               /\ decision'.outcome \in {"backoff", "dedupe", "dispatched"}
               /\ decision'.outcome = "dispatched" =>
                    (last_notification_time' = Some(now) /\ decision'.priority \in {Some(-2), Some(0), Some(1)})
               /\ decision'.outcome # "dispatched" =>
                    last_notification_time' = last_notification_time
          /\ last_notification_time' # last_notification_time =>
               (NotifyStep /\ decision'.outcome = "dispatched")]_vars

\* C22 witness: the second event decided was sent with priority 1, later than
\* the first, and its time is the last_notification_time
C22_Witness ==
    /\ decision.n = 2
    /\ decision.outcome = "dispatched"
    /\ decision.priority = Some(1)
    /\ decision.at > StartClock
    /\ last_notification_time = Some(decision.at)

(***************************************************************************)
(* The heartbeat of the callback: every kind of stream message, with and   *)
(* without --camera and --test, next to the watchdog.                      *)
(***************************************************************************)
InitHeartbeat ==
    /\ Boot
    /\ WEBSOCKET_STALE_SECONDS \in StaleChoices
    /\ WEBSOCKET_INITIAL_TIMEOUT \in InitialTimeoutChoices
    /\ notify = FALSE
    /\ camera_filter \in {None, Some("Front")}
    /\ test_mode \in BOOLEAN
    /\ scheduled_exit = FALSE

NextHeartbeat ==
    \/ Main
    \/ (ticks < MaxTicks + 1 /\ Tick(WdDeltas, WdHorizon))
    \/ \E m \in Messages : HandleMessage(m)
    \/ \E c \in Cameras : Decide(c, <<>>, NotCalled, FALSE)
    \/ WatchdogCheck
    \/ WatchdogResubscribe

SpecHeartbeat == InitHeartbeat /\ [][NextHeartbeat]_vars

\* C23: every stream message, whether or not it goes on to image analysis
\* (ADD and REMOVE actions, updates without a camera object, cameras other
\* than the --camera one, cameras without motion), sets last_ws_message_at to
\* the clock reading of the callback, and sets connection_start_time to it
\* only if that is unset; a message that is dropped changes nothing else.
\* The same holds for the first heartbeat, which main() records.
C23_HeartbeatOnEveryMessage ==
    [][/\ \A m \in Messages : HandleMessage(m) =>
              /\ last_ws_message_at' = Some(now)
              /\ connection_start_time' =
                   IF connection_start_time = None THEN Some(now) ELSE connection_start_time
              /\ ~Analysed(m) => UNCHANGED <<history, inflight, handled, decision, exit_code>>
       /\ started' # started =>
              (last_ws_message_at' = Some(now) /\ connection_start_time' = Some(now))]_vars

\* C23 witness: with --camera Front and without --test, stream messages have
\* arrived after the subscription and moved last_ws_message_at past
\* connection_start_time, and none of them went on to image analysis
C23_Witness ==
    /\ camera_filter = Some("Front")
    /\ ~test_mode
    /\ heard
    /\ handled = 0
    /\ connection_start_time # None
    /\ last_ws_message_at # None
    /\ last_ws_message_at[1] > connection_start_time[1]

(***************************************************************************)
(* The two timer loops on their own, over a day and a half: the clock goes *)
(* from 04:28:00 to 08:00:00, by 12 hours, and by 5 seconds.               *)
(***************************************************************************)
SchedulerDeltas == {5, 12720, 43200}

NextScheduler ==
    \/ Main
    \/ (ticks < MaxTicks + 2 /\ Tick(SchedulerDeltas, 200000))
    \/ StatusPulse
    \/ ScheduledExitGrace
    \/ ScheduledExit

SpecScheduler == InitProgram /\ [][NextScheduler]_vars

\* 08:00 and 20:00 of every day, in seconds: 08:00 of day 0 plus a multiple of 12 hours
OnStatusGrid(t) == (t - 8 * 3600) % (12 * 3600) = 0

\* C24: whenever the status loop computes its target, at start and after
\* every wake-up, the target is the earliest 08:00 or 20:00 strictly after the
\* clock (12 hours ahead when the clock is exactly at 08:00 or 20:00); a
\* wake-up sends "System online" exactly when --notify is on, and whether that
\* notification is delivered or not, the loop goes on to its next target.
C24_StatusPulse ==
    /\ []((started /\ exit_code = None) => status_next # None)
    /\ [][/\ status_next' # status_next =>
               /\ status_next' # None
               /\ OnStatusGrid(status_next'[1])
               /\ status_next'[1] > now
               /\ status_next'[1] - now <= 12 * 3600
               /\ OnStatusGrid(now) => status_next'[1] = now + 12 * 3600
          /\ (status_next # None /\ status_next' # status_next) =>
               /\ now >= status_next[1]
               /\ status_sent' = IF notify THEN status_sent + 1 ELSE status_sent
               /\ status_result' \in (IF notify THEN {"sent", "failed"} ELSE {"off"})
          /\ (status_sent' # status_sent \/ status_result' # status_result) =>
               (status_next # None /\ status_next' # status_next)]_vars

\* C24 witness: the loop woke up at exactly 20:00:00, the notification it
\* sent was not delivered, a notification of an earlier wake-up was sent, and
\* the next target is 08:00:00 of the next day
C24_Witness ==
    /\ notify
    /\ now % (24 * 3600) = 20 * 3600
    /\ status_result = "failed"
    /\ status_sent = 2
    /\ status_next = Some(now + 12 * 3600)

\* the first 20:00:00 after the start of the process
FirstEvening ==
    LET evening == (StartClock \div (24 * 3600)) * (24 * 3600) + 20 * 3600
    IN  IF StartClock < evening THEN evening ELSE evening + 24 * 3600

\* C25: with --scheduled-exit the process ends with status 0 and not before
\* 5 seconds after the first 20:00:00 that follows its start, and when it
\* ends the status loop has had its 20:00:00 wake-up of that day (with
\* --notify on: has sent its notification); without the flag the process is
\* never ended by the timer loops.
C25_ScheduledExit ==
    /\ [](exit_code # None =>
            /\ exit_code = Some(0)
            /\ scheduled_exit
            /\ now >= FirstEvening + 5
            /\ status_next # None
            /\ status_next[1] > FirstEvening
            /\ notify => (status_sent >= 1 /\ status_result \in {"sent", "failed"}))
    /\ [](~scheduled_exit => (exit_code = None /\ exit_pc = "off"))

\* C25 witness: the process has ended with status 0 at 20:00:05 after the
\* notifications of 08:00:00 and 20:00:00 were sent
C25_Witness ==
    /\ exit_code = Some(0)
    /\ notify
    /\ now = FirstEvening + 5
    /\ status_sent = 2

(***************************************************************************)
(* Classification and priorities, checked under SpecPolicy.                *)
(***************************************************************************)
\* the kind of an analysis by the case-insensitive prefix of its stripped
\* first line
KindByFirstLine(analysis) ==
    LET fl == Upper(FirstLine(analysis))
    IN  IF StartsWith(fl, ALARM) THEN "Alarm"
        ELSE IF StartsWith(fl, OBSERVATION) THEN "Observation"
        ELSE "Nothing"
KindTable == [a \in Analyses |-> KindByFirstLine(a)]

\* C26: the callback treats an analysis by the kind its stripped first line
\* has under case-insensitive prefixes: an Alarm gets an alarm priority (0 or
\* 1), an Observation gets -2 or is skipped, and anything else is not sent
\* and leaves the history as it was.
C26_KindByFirstLine ==
    [][NotifyStep =>
         LET kind == KindTable[decision'.analysis]
         IN  /\ kind = "Alarm" =>
                  (ReadNext.alarm /\ decision'.priority \in {Some(0), Some(1)})
             /\ kind = "Observation" =>
                  (ReadNext.observation /\ decision'.priority \in {None, Some(-2)})
             /\ kind = "Nothing" =>
                  (decision'.outcome # "dispatched" /\ UNCHANGED history)]_vars

\* C27: every notification sent for a stream event has priority -2, 0 or 1;
\* an observation is sent with -2; priority 1 goes only to an alarm decided
\* outside the 60 second alarm backoff that is not about a person or is
\* decided in the night window, so a person alarm decided by day never has it.
C27_Priorities ==
    [][(NotifyStep /\ decision'.outcome = "dispatched") =>
         /\ decision'.priority \in {Some(-2), Some(0), Some(1)}
         /\ ReadNext.observation => decision'.priority = Some(-2)
         /\ decision'.priority = Some(1) =>
              /\ ReadNext.alarm
              /\ (last_alarm_time = None \/ now - last_alarm_time[1] >= 60)
              /\ (~ReadNext.person \/ is_night(now))
         /\ (ReadNext.alarm /\ ReadNext.person /\ ~is_night(now)) =>
              decision'.priority = Some(0)]_vars

\* C27 witness: a person alarm decided in the night window was sent with
\* priority 1
C27_Witness ==
    /\ decision.outcome = "dispatched"
    /\ decision.analysis # <<>>
    /\ ReadLast.alarm
    /\ ReadLast.person
    /\ is_night(decision.at)
    /\ decision.priority = Some(1)

\* C28: the alarm backoff lowers the priority and withholds nothing: with
\* --notify on, every analysed alarm that is not about a person is sent, also
\* inside the 60 seconds, and a person alarm is withheld only by the person
\* dedupe, i.e. with a sighting of the same camera less than 10 minutes old
\* and compare_description answering True.
C28_AlarmNeverSuppressed ==
    [][(NotifyStep /\ ReadNext.alarm) =>
         LET prev == last_person_notification_by_camera[decision'.camera]
         IN  /\ decision'.outcome \in {"dispatched", "dedupe"}
             /\ ~ReadNext.person => decision'.outcome = "dispatched"
             /\ decision'.outcome = "dispatched" => last_notification_time' = Some(now)
             /\ decision'.outcome = "dedupe" =>
                  /\ ReadNext.person
                  /\ prev # None
                  /\ now - prev[1].timestamp < 10 * 60
                  /\ decision'.cmp.called
                  /\ CompareTable[decision'.cmp]]_vars

\* C28 witness: a person alarm decided inside the alarm backoff and inside
\* the dedupe window of its camera was sent, with priority 0, after
\* compare_description answered DIFFERENT
C28_Witness ==
    /\ decision.outcome = "dispatched"
    /\ decision.analysis # <<>>
    /\ ReadLast.alarm
    /\ ReadLast.person
    /\ decision.cmp.called
    /\ decision.cmp.content = DIFFERENT
    /\ decision.priority = Some(0)
    /\ last_alarm_time # None
    /\ last_alarm_time[1] < decision.at
    /\ decision.at - last_alarm_time[1] < 60

(***************************************************************************)
(* Subscriptions and the heartbeat under reconnection, SpecWatchdog.       *)
(***************************************************************************)
\* C29: at most one subscription delivers messages at any time, whatever the
\* unsubscribe calls and the subscribe attempts of the stale checks came to,
\* and no subscription handle is called (unsubscribed) more than once.
C29_OneSubscription ==
    /\ Cardinality(active) <= 1
    /\ \A i, j \in 1..Len(unsubscribe_calls) :
         i # j => unsubscribe_calls[i] # unsubscribe_calls[j]

=============================================================================
